---- MODULE Spec2Model ----
(***************************************************************************)
(* Index selection of the SQL planner (sql/select.go): value range         *)
(* propagation over the where-clause (qvalueRangeMap.analyzeExpr), the     *)
(* range algebra on one end of a range (qvalueInfo.intersect / union),     *)
(* the evaluation of candidate indexes (indexInfo.analyzeRanges), the      *)
(* construction of the scan keys (makeStartKey / makeEndKey) and the       *)
(* selection itself (planner.selectIndex).                                 *)
(***************************************************************************)
EXTENDS Integers, Sequences, FiniteSets, TLC

VARIABLES
    q, qstart, qprev, qn, qop, q0, qseq, qpanic, \* one end of a range under intersect / union
    qfold,                                       \* the constraints folded into q so far
    m, mprev, mleft, mright, mpanic, mstage,     \* a range map under analyzeExpr
    pc, desc, reqIndex, filter, targets, scan,   \* the scanNode handed to selectIndex
    rangeInfo, candidates, panicked, rescan,     \* selectIndex's locals and a second run
    build                                        \* how the build's sort.Sort orders ties

algVars == <<q, qstart, qprev, qn, qop, q0, qseq, qpanic, qfold>>
anaVars == <<m, mprev, mleft, mright, mpanic, mstage>>
selVars == <<pc, desc, reqIndex, filter, targets, scan, rangeInfo, candidates,
             panicked, rescan, build>>
vars == <<algVars, anaVars, selVars>>

(***************************************************************************)
(* Bounds of the model.                                                    *)
(***************************************************************************)
\* Datums are the integers 0..MaxVal.
MaxVal == 2

(***************************************************************************)
(* Datums, operators, keys.                                                *)
(***************************************************************************)
\* The nil parser.Datum of a qvalueInfo that holds no constraint.
Nil == -1

Datums == 0..MaxVal

\* parser.ComparisonOp values the analysis distinguishes; the others ("NE",
\* "LIKE") are left alone by analyzeComparisonExpr.
RangeOps == {"EQ", "LT", "LE", "GT", "GE"}

\* The zero qvalueInfo: no datum, op the zero ComparisonOp.
ZeroInfo == [datum |-> Nil, op |-> "EQ"]

\* The zero qvalueRange (&qvalueRange{}).
ZeroRange == [start |-> ZeroInfo, end |-> ZeroInfo]

\* Offset of the one-byte encoding of a small integer.
IntZero == 136

\* The largest byte.
MaxByte == 255

\* encodeTableKey(b, datum): appends the order-preserving encoding of datum.
encodeTableKey(b, datum) == Append(b, IntZero + datum)

\* bytes.Compare: lexicographic order on byte strings, as -1, 0, +1.
RECURSIVE bytesCompare(_, _)
bytesCompare(x, y) ==
    IF x = <<>> /\ y = <<>> THEN 0
    ELSE IF x = <<>> THEN -1
    ELSE IF y = <<>> THEN 1
    ELSE IF Head(x) < Head(y) THEN -1
    ELSE IF Head(x) > Head(y) THEN 1
    ELSE bytesCompare(Tail(x), Tail(y))

\* proto.Key.Next: the immediate successor of a key.
KeyNext(key) == Append(key, 0)

\* proto.Key.PrefixEnd: the smallest key greater than every key with this prefix.
RECURSIVE PrefixEnd(_)
PrefixEnd(key) ==
    IF key = <<>> THEN <<MaxByte, MaxByte>>
    ELSE LET n == Len(key) IN
         IF key[n] < MaxByte THEN [key EXCEPT ![n] = key[n] + 1]
         ELSE PrefixEnd(SubSeq(key, 1, n - 1))

\* MakeIndexKeyPrefix(tableID, indexID).
MakeIndexKeyPrefix(tableID, indexID) == <<IntZero + tableID, IntZero + indexID>>

(***************************************************************************)
(* qvalueInfo: one end of a value range.                                   *)
(***************************************************************************)
\* assertStartOp: TRUE when the assertion passes (no panic).
assertStartOp(n) == n.op \in {"GE", "GT"}

\* assertEndOp: TRUE when the assertion passes (no panic).
assertEndOp(n) == n.op \in {"LE", "LT"}

\* qvalueInfo.compare: bytes.Compare(newKey, oldKey) on the encoded datums.
compare(old, datum) ==
    bytesCompare(encodeTableKey(<<>>, datum), encodeTableKey(<<>>, old.datum))

\* intersect taking the operator of n whenever the values are equal.
intersectTakesNewOp(old, n, start) ==
    IF ~(IF start THEN assertStartOp(n) ELSE assertEndOp(n))
    THEN [q |-> old, panic |-> TRUE]
    ELSE IF old.datum = Nil
    THEN [q |-> n, panic |-> FALSE]
    ELSE LET cmp == IF start THEN 1 ELSE -1
             c == compare(old, n.datum)
         IN  IF c = cmp \/ c = 0
             THEN [q |-> n, panic |-> FALSE]
             ELSE [q |-> old, panic |-> FALSE]

\* intersect leaving the operator of *q alone when the values are equal.
intersectKeepsOp(old, n, start) ==
    IF ~(IF start THEN assertStartOp(n) ELSE assertEndOp(n))
    THEN [q |-> old, panic |-> TRUE]
    ELSE IF old.datum = Nil
    THEN [q |-> n, panic |-> FALSE]
    ELSE LET cmp == IF start THEN 1 ELSE -1
             c == compare(old, n.datum)
         IN  IF c = cmp
             THEN [q |-> n, panic |-> FALSE]
             ELSE [q |-> old, panic |-> FALSE]

\* qvalueInfo.intersect: the new value of *q, and whether the assertion panicked.
intersect(old, n, start) ==
    IF ~(IF start THEN assertStartOp(n) ELSE assertEndOp(n))
    THEN [q |-> old, panic |-> TRUE]
    ELSE IF old.datum = Nil
    THEN [q |-> n, panic |-> FALSE]
    ELSE LET cmp == IF start THEN 1 ELSE -1
             c == compare(old, n.datum)
         IN  IF c = cmp
             THEN [q |-> n, panic |-> FALSE]
             ELSE IF c = 0 /\ n.op \in {"GT", "LT"}
             THEN [q |-> [old EXCEPT !.op = n.op], panic |-> FALSE]
             ELSE [q |-> old, panic |-> FALSE]

\* union keeping the operator of *q when the values are equal.
unionKeepsOp(old, n, start) ==
    IF ~(IF start THEN assertStartOp(n) ELSE assertEndOp(n))
    THEN [q |-> old, panic |-> TRUE]
    ELSE IF old.datum = Nil
    THEN [q |-> n, panic |-> FALSE]
    ELSE LET cmp == IF start THEN -1 ELSE 1
             c == compare(old, n.datum)
         IN  IF c = cmp
             THEN [q |-> n, panic |-> FALSE]
             ELSE [q |-> old, panic |-> FALSE]

\* qvalueInfo.union: the new value of *q, and whether the assertion panicked.
union(old, n, start) ==
    IF ~(IF start THEN assertStartOp(n) ELSE assertEndOp(n))
    THEN [q |-> old, panic |-> TRUE]
    ELSE IF old.datum = Nil
    THEN [q |-> n, panic |-> FALSE]
    ELSE LET cmp == IF start THEN -1 ELSE 1
             c == compare(old, n.datum)
         IN  IF c = cmp
             THEN [q |-> n, panic |-> FALSE]
             ELSE IF c = 0 /\ n.op \in {"GE", "LE"}
             THEN [q |-> [old EXCEPT !.op = n.op], panic |-> FALSE]
             ELSE [q |-> old, panic |-> FALSE]

(***************************************************************************)
(* Expressions of the where-clause (parser.Expr).                          *)
(***************************************************************************)
\* *qvalue: a reference to column col.
QV(col) == [kind |-> "qvalue", col |-> col]

\* A constant expression that evaluates to the integer datum val.
K(val) == [kind |-> "const", val |-> val]

\* A constant expression whose evaluation fails (EvalExpr returns an error).
EvalErr == [kind |-> "evalerr"]

\* A constant expression whose datum is not of the column's type.
WrongType == [kind |-> "wrongtype"]

\* An expression that is not a qvalue and contains a column reference.
NonConst == [kind |-> "nonconst"]

\* *parser.ComparisonExpr
Cmp(op, l, r) == [kind |-> "cmp", op |-> op, left |-> l, right |-> r]

\* *parser.AndExpr
And(l, r) == [kind |-> "and", left |-> l, right |-> r]

\* *parser.OrExpr
Or(l, r) == [kind |-> "or", left |-> l, right |-> r]

\* *parser.NotExpr
Not(e) == [kind |-> "not", expr |-> e]

\* *parser.ParenExpr
Paren(e) == [kind |-> "paren", expr |-> e]

\* *parser.RangeCond: left [NOT] BETWEEN from AND to
RangeCond(neg, l, from, to) ==
    [kind |-> "range", not |-> neg, left |-> l, from |-> from, to |-> to]

\* Any other expression node (a function call, a boolean constant, ...).
OtherExpr == [kind |-> "other"]

\* isConst: the expression contains no column reference (no DReference).
isConst(e) == e.kind \in {"const", "evalerr", "wrongtype"}

\* parser.EvalExpr on a constant expression: the datum, its type, the error.
EvalExpr(e) ==
    [datum |-> IF e.kind = "const" THEN e.val ELSE Nil,
     type  |-> IF e.kind = "wrongtype" THEN "string" ELSE "int",
     err   |-> e.kind = "evalerr"]

\* convertDatum(col, datum): TRUE when the datum matches the column's type
\* (every column of the model is an integer column).
convertDatum(col, ev) == ev.type = "int"

(***************************************************************************)
(* qvalueRangeMap: ColumnID -> qvalueRange, with the panic of a failed     *)
(* assertion carried beside it.                                            *)
(***************************************************************************)
\* make(qvalueRangeMap)
EmptyMap == [c \in {} |-> ZeroRange]

\* m[id] = r
MapPut(mp, id, r) == [c \in (DOMAIN mp) \cup {id} |-> IF c = id THEN r ELSE mp[c]]

\* A range map being filled: the map, and whether an assertion has panicked.
Ctx(mp) == [m |-> mp, panic |-> FALSE]

\* qvalueRangeMap.getRange: the map with an entry for colID.
getRange(mp, colID) == IF colID \in DOMAIN mp THEN mp ELSE MapPut(mp, colID, ZeroRange)

\* The operator of "constant <op> qval" taken as it is.
invertOpKeeps(op) == op

\* "constant <op> qval: invert the operation."
invertOp(op) ==
    CASE op = "LT" -> "GT"
      [] op = "LE" -> "GE"
      [] op = "GT" -> "LT"
      [] op = "GE" -> "LE"
      [] OTHER -> op

\* The start restriction handing "=" to intersect as it is.
restrictStartKeepsEq(r, op, datum) ==
    IF op \in {"EQ", "GE", "GT"}
    THEN intersect(r.start, [datum |-> datum, op |-> op], TRUE)
    ELSE [q |-> r.start, panic |-> FALSE]

\* "Restrict the start element" of analyzeComparisonExpr.
restrictStart(r, op, datum) ==
    IF op \in {"EQ", "GE", "GT"}
    THEN intersect(r.start, [datum |-> datum, op |-> IF op = "EQ" THEN "GE" ELSE op], TRUE)
    ELSE [q |-> r.start, panic |-> FALSE]

\* The end restriction without the case for "=".
restrictEndNoEq(r, op, datum) ==
    IF op \in {"LE", "LT"}
    THEN intersect(r.end, [datum |-> datum, op |-> op], FALSE)
    ELSE [q |-> r.end, panic |-> FALSE]

\* "Restrict the end element" of analyzeComparisonExpr.
restrictEnd(r, op, datum) ==
    IF op \in {"EQ", "LE", "LT"}
    THEN intersect(r.end, [datum |-> datum, op |-> IF op = "EQ" THEN "LE" ELSE op], FALSE)
    ELSE [q |-> r.end, panic |-> FALSE]

\* analyzeComparisonExpr fetching the range of the column before the constant
\* is evaluated and converted.
analyzeComparisonExprEarlyGetRange(ctx, node) ==
    IF node.op \notin RangeOps THEN ctx
    ELSE LET leftIsQ == node.left.kind = "qvalue"
             rightIsQ == node.right.kind = "qvalue"
         IN  IF leftIsQ /\ ~isConst(node.right) THEN ctx
             ELSE IF ~leftIsQ /\ ~rightIsQ THEN ctx
             ELSE IF ~leftIsQ /\ ~isConst(node.left) THEN ctx
             ELSE LET qval == IF leftIsQ THEN node.left ELSE node.right
                      constExpr == IF leftIsQ THEN node.right ELSE node.left
                      op == IF leftIsQ THEN node.op ELSE invertOp(node.op)
                      ev == EvalExpr(constExpr)
                      m1 == getRange(ctx.m, qval.col)
                      r == m1[qval.col]
                  IN  IF ev.err THEN [ctx EXCEPT !.m = m1]
                      ELSE IF ~convertDatum(qval.col, ev) THEN [ctx EXCEPT !.m = m1]
                      ELSE LET s == restrictStart(r, op, ev.datum)
                               e == restrictEnd([r EXCEPT !.start = s.q], op, ev.datum)
                           IN  IF s.panic
                               THEN [m |-> m1, panic |-> TRUE]
                               ELSE [m |-> [m1 EXCEPT ![qval.col] = [start |-> s.q, end |-> e.q]],
                                     panic |-> e.panic]

\* qvalueRangeMap.analyzeComparisonExpr
analyzeComparisonExpr(ctx, node) ==
    IF node.op \notin RangeOps THEN ctx
    ELSE LET leftIsQ == node.left.kind = "qvalue"
             rightIsQ == node.right.kind = "qvalue"
         IN  IF leftIsQ /\ ~isConst(node.right) THEN ctx
             ELSE IF ~leftIsQ /\ ~rightIsQ THEN ctx
             ELSE IF ~leftIsQ /\ ~isConst(node.left) THEN ctx
             ELSE LET qval == IF leftIsQ THEN node.left ELSE node.right
                      constExpr == IF leftIsQ THEN node.right ELSE node.left
                      op == IF leftIsQ THEN node.op ELSE invertOp(node.op)
                      ev == EvalExpr(constExpr)
                  IN  IF ev.err THEN ctx
                      ELSE IF ~convertDatum(qval.col, ev) THEN ctx
                      ELSE LET m1 == getRange(ctx.m, qval.col)
                               r == m1[qval.col]
                               s == restrictStart(r, op, ev.datum)
                               e == restrictEnd([r EXCEPT !.start = s.q], op, ev.datum)
                           IN  IF s.panic
                               THEN [m |-> m1, panic |-> TRUE]
                               ELSE [m |-> [m1 EXCEPT ![qval.col] = [start |-> s.q, end |-> e.q]],
                                     panic |-> e.panic]

\* The orders in which a range over a map with key set S can visit its keys.
Orders(S) ==
    {f \in [1..Cardinality(S) -> S] : \A i, j \in 1..Cardinality(S) : i # j => f[i] # f[j]}

\* The loop body keeping the range of left for a key right does not hold.
orMergeOneKeepsLeft(ctx, left, right, id) ==
    IF id \notin DOMAIN right THEN [ctx EXCEPT !.m = MapPut(ctx.m, id, left[id])]
    ELSE LET lRange == left[id]
             rRange == right[id]
             s == IF lRange.start.datum # Nil /\ rRange.start.datum # Nil
                  THEN union(lRange.start, rRange.start, TRUE)
                  ELSE [q |-> ZeroInfo, panic |-> FALSE]
             e == IF lRange.end.datum # Nil /\ rRange.end.datum # Nil
                  THEN union(lRange.end, rRange.end, FALSE)
                  ELSE [q |-> ZeroInfo, panic |-> FALSE]
         IN  IF s.panic \/ e.panic THEN [ctx EXCEPT !.panic = TRUE]
             ELSE IF s.q.datum # Nil \/ e.q.datum # Nil
             THEN [ctx EXCEPT !.m = MapPut(ctx.m, id, [start |-> s.q, end |-> e.q])]
             ELSE ctx

\* The body of the loop "for id, lRange := range left" of the OrExpr case.
orMergeOne(ctx, left, right, id) ==
    IF id \notin DOMAIN right THEN ctx
    ELSE LET lRange == left[id]
             rRange == right[id]
             s == IF lRange.start.datum # Nil /\ rRange.start.datum # Nil
                  THEN union(lRange.start, rRange.start, TRUE)
                  ELSE [q |-> ZeroInfo, panic |-> FALSE]
             e == IF lRange.end.datum # Nil /\ rRange.end.datum # Nil
                  THEN union(lRange.end, rRange.end, FALSE)
                  ELSE [q |-> ZeroInfo, panic |-> FALSE]
         IN  IF s.panic \/ e.panic THEN [ctx EXCEPT !.panic = TRUE]
             ELSE IF s.q.datum # Nil \/ e.q.datum # Nil
             THEN [ctx EXCEPT !.m = MapPut(ctx.m, id, [start |-> s.q, end |-> e.q])]
             ELSE ctx

\* The loop of the OrExpr case leaving at the first key right does not hold
\* (break for continue).
RECURSIVE orMergeBreak(_, _, _, _)
orMergeBreak(ctx, left, right, ord) ==
    IF ord = <<>> \/ ctx.panic THEN ctx
    ELSE IF Head(ord) \notin DOMAIN right THEN ctx
    ELSE orMergeBreak(orMergeOne(ctx, left, right, Head(ord)), left, right, Tail(ord))

\* The loop of the OrExpr case, visiting the keys of left in the order ord.
RECURSIVE orMerge(_, _, _, _)
orMerge(ctx, left, right, ord) ==
    IF ord = <<>> \/ ctx.panic THEN ctx
    ELSE orMerge(orMergeOne(ctx, left, right, Head(ord)), left, right, Tail(ord))

\* The rewrite of BETWEEN with the operators of the two rewrites exchanged.
rewriteRangeCondExchanged(e) ==
    IF e.not
    THEN Or(Cmp("LE", e.left, e.from), Cmp("GE", e.left, e.to))
    ELSE And(Cmp("GT", e.left, e.from), Cmp("LT", e.left, e.to))

\* The RangeCond case: "a NOT BETWEEN b AND c" -> "a < b OR a > c",
\* "a BETWEEN b AND c" -> "a >= b AND a <= c".
rewriteRangeCond(e) ==
    IF e.not
    THEN Or(Cmp("LT", e.left, e.from), Cmp("GT", e.left, e.to))
    ELSE And(Cmp("GE", e.left, e.from), Cmp("LE", e.left, e.to))

\* qvalueRangeMap.analyzeExpr: the maps the walk can leave, one for each order
\* in which the OrExpr loops can visit their map.
RECURSIVE analyzeExpr(_, _)
analyzeExpr(ctx, e) ==
    IF ctx.panic THEN {ctx}
    ELSE CASE e.kind = "not" -> {ctx}
           [] e.kind = "or" ->
                UNION { IF l.panic THEN {[ctx EXCEPT !.panic = TRUE]}
                        ELSE UNION { IF r.panic THEN {[ctx EXCEPT !.panic = TRUE]}
                                     ELSE {orMerge(ctx, l.m, r.m, ord) : ord \in Orders(DOMAIN l.m)}
                                     : r \in analyzeExpr(Ctx(EmptyMap), e.right) }
                        : l \in analyzeExpr(Ctx(EmptyMap), e.left) }
           [] e.kind = "and" ->
                UNION { analyzeExpr(c, e.right) : c \in analyzeExpr(ctx, e.left) }
           [] e.kind = "paren" -> analyzeExpr(ctx, e.expr)
           [] e.kind = "cmp" -> {analyzeComparisonExpr(ctx, e)}
           [] e.kind = "range" -> analyzeExpr(ctx, rewriteRangeCond(e))
           [] OTHER -> {ctx}

(***************************************************************************)
(* Table and index descriptors.                                            *)
(***************************************************************************)
\* IndexDescriptor
Index(id, cols, unique) == [ID |-> id, ColumnIDs |-> cols, Unique |-> unique]

\* TableDescriptor; PrimaryIndex has index ID 1, Indexes[i] has ID i + 1.
Table(id, cols, pk, indexes) ==
    [ID |-> id, Columns |-> cols, PrimaryIndex |-> Index(1, pk, TRUE), Indexes |-> indexes]

\* s.desc == nil
NoDesc == [ID |-> 0]

\* s.filter == nil
NoFilter == [kind |-> "nil"]

\* IndexDescriptor.containsColumnID
containsColumnID(index, colID) == \E i \in 1..Len(index.ColumnIDs) : index.ColumnIDs[i] = colID

\* v.index == &v.desc.PrimaryIndex
isPrimaryIndex(d, index) == index.ID = d.PrimaryIndex.ID

(***************************************************************************)
(* indexInfo: one candidate index.                                         *)
(***************************************************************************)
\* math.MaxFloat64, the cost of an index that does not cover the query.
MaxFloat64 == [inf |-> TRUE, num |-> 0, den |-> 1]

\* A finite cost num/den (costs are kept as exact fractions).
Cost(num, den) == [inf |-> FALSE, num |-> num, den |-> den]

\* c1 < c2 on costs.
CostLess(c1, c2) ==
    /\ ~c1.inf
    /\ (c2.inf \/ c1.num * c2.den < c2.num * c1.den)

\* &indexInfo{desc: s.desc, index: index}
NewIndexInfo(index) == [index |-> index, start |-> <<>>, end |-> <<>>, cost |-> Cost(0, 1)]

\* The loop of isCoveringIndex letting a unique index draw on the primary key.
RECURSIVE coveringLoopIgnoresUnique(_, _, _)
coveringLoopIgnoresUnique(d, index, ord) ==
    IF ord = <<>> THEN TRUE
    ELSE IF /\ ~containsColumnID(index, Head(ord))
            /\ ~containsColumnID(d.PrimaryIndex, Head(ord))
    THEN FALSE
    ELSE coveringLoopIgnoresUnique(d, index, Tail(ord))

\* The loop "for colID := range qvals" of isCoveringIndex, visiting the
\* referenced columns in the order ord.
RECURSIVE coveringLoop(_, _, _)
coveringLoop(d, index, ord) ==
    IF ord = <<>> THEN TRUE
    ELSE IF /\ ~containsColumnID(index, Head(ord))
            /\ (index.Unique \/ ~containsColumnID(d.PrimaryIndex, Head(ord)))
    THEN FALSE
    ELSE coveringLoop(d, index, Tail(ord))

\* indexInfo.isCoveringIndex; qord is the order the range over qvals takes.
isCoveringIndex(d, index, qord) ==
    IF isPrimaryIndex(d, index) THEN TRUE ELSE coveringLoop(d, index, qord)

\* makeStartInfo appending only a start that holds a datum.
RECURSIVE makeStartInfoSkipsNil(_, _)
makeStartInfoSkipsNil(cols, mp) ==
    IF cols = <<>> THEN <<>>
    ELSE IF Head(cols) \in DOMAIN mp /\ mp[Head(cols)].start.datum # Nil
    THEN LET r == mp[Head(cols)] IN
         IF r.start.op = "GE"
         THEN <<r.start>> \o makeStartInfoSkipsNil(Tail(cols), mp)
         ELSE <<r.start>>
    ELSE <<>>

\* indexInfo.makeStartInfo
RECURSIVE makeStartInfo(_, _)
makeStartInfo(cols, mp) ==
    IF cols = <<>> THEN <<>>
    ELSE IF Head(cols) \in DOMAIN mp
    THEN LET r == mp[Head(cols)] IN
         IF r.start.op = "GE"
         THEN <<r.start>> \o makeStartInfo(Tail(cols), mp)
         ELSE <<r.start>>
    ELSE <<>>

\* indexInfo.makeEndInfo
RECURSIVE makeEndInfo(_, _)
makeEndInfo(cols, mp) ==
    IF cols = <<>> THEN <<>>
    ELSE IF Head(cols) \in DOMAIN mp
    THEN LET r == mp[Head(cols)] IN
         IF r.end.op = "LE"
         THEN <<r.end>> \o makeEndInfo(Tail(cols), mp)
         ELSE <<r.end>>
    ELSE <<>>

\* The base cost without the sentinel key of the primary index.
baseCostNoSentinel(d, index) ==
    IF isPrimaryIndex(d, index)
    THEN Len(d.Columns) - Len(d.PrimaryIndex.ColumnIDs)
    ELSE Len(index.ColumnIDs)

\* The base cost of analyzeRanges: the number of keys per row.
baseCost(d, index) ==
    IF isPrimaryIndex(d, index)
    THEN 1 + Len(d.Columns) - Len(d.PrimaryIndex.ColumnIDs)
    ELSE Len(index.ColumnIDs)

\* indexInfo.analyzeRanges
analyzeRanges(d, v, qord, mp) ==
    IF ~isCoveringIndex(d, v.index, qord)
    THEN [v EXCEPT !.cost = MaxFloat64]
    ELSE LET start == makeStartInfo(v.index.ColumnIDs, mp)
             end == makeEndInfo(v.index.ColumnIDs, mp)
             base == baseCost(d, v.index)
         IN  [v EXCEPT !.start = start,
                       !.end = end,
                       !.cost = IF Len(start) = 0 /\ Len(end) = 0
                                THEN Cost(base * 1000, 1)
                                ELSE Cost(base * (Len(v.index.ColumnIDs) + Len(v.index.ColumnIDs)),
                                          Len(start) + Len(end))]

\* The loop of makeStartKey over v.start.
RECURSIVE startKeyLoop(_, _)
startKeyLoop(key, start) ==
    IF start = <<>> THEN key
    ELSE LET e == Head(start) IN
         IF e.datum = Nil THEN key
         ELSE IF e.op = "GT" THEN KeyNext(encodeTableKey(key, e.datum))
         ELSE startKeyLoop(encodeTableKey(key, e.datum), Tail(start))

\* indexInfo.makeStartKey
makeStartKey(d, v) == startKeyLoop(MakeIndexKeyPrefix(d.ID, v.index.ID), v.start)

\* The loop of makeEndKey over v.end: the key and isLT when the loop ends.
RECURSIVE endKeyLoop(_, _, _)
endKeyLoop(key, isLT, end) ==
    IF end = <<>> THEN [key |-> key, isLT |-> isLT]
    ELSE LET e == Head(end) IN
         IF e.datum = Nil THEN [key |-> key, isLT |-> isLT]
         ELSE IF e.op = "LT" THEN [key |-> encodeTableKey(key, e.datum), isLT |-> TRUE]
         ELSE endKeyLoop(encodeTableKey(key, e.datum), FALSE, Tail(end))

\* makeEndKey without the prefix-end of a key that does not end on "<".
makeEndKeyNoPrefixEnd(d, v) ==
    endKeyLoop(MakeIndexKeyPrefix(d.ID, v.index.ID), FALSE, v.end).key

\* indexInfo.makeEndKey
makeEndKey(d, v) ==
    LET r == endKeyLoop(MakeIndexKeyPrefix(d.ID, v.index.ID), FALSE, v.end)
    IN  IF ~r.isLT THEN PrefixEnd(r.key) ELSE r.key

(***************************************************************************)
(* indexInfoByCost and sort.Sort.                                          *)
(***************************************************************************)
\* indexInfoByCost.Less on two candidates.
Less(vi, vj) == CostLess(vi.cost, vj.cost)

\* The longest slice sort.Sort orders by insertion sort alone.
InsertionSortMax == 7

\* One pass of the inner loop of insertion sort: x moves down past every
\* element it is Less than.
RECURSIVE insertOne(_, _)
insertOne(sorted, x) ==
    IF sorted = <<>> THEN <<x>>
    ELSE LET n == Len(sorted) IN
         IF Less(x, sorted[n])
         THEN Append(insertOne(SubSeq(sorted, 1, n - 1), x), sorted[n])
         ELSE Append(sorted, x)

\* Insertion sort of data.
RECURSIVE insertionSort(_)
insertionSort(data) ==
    IF data = <<>> THEN <<>>
    ELSE LET n == Len(data) IN insertOne(insertionSort(SubSeq(data, 1, n - 1)), data[n])

\* sort.Sort(indexInfoByCost(candidates)). Up to InsertionSortMax elements it
\* is insertion sort. Beyond that it is an unstable sort: the result is ordered
\* by Less and the order of equal elements is the build's; build b leaves them
\* as a stable sort of the slice rotated by b places does (b = 0: stable).
sortByCost(data, b) ==
    LET n == Len(data) IN
    IF n <= InsertionSortMax \/ b = 0 THEN insertionSort(data)
    ELSE insertionSort(SubSeq(data, n - b + 1, n) \o SubSeq(data, 1, n - b))

(***************************************************************************)
(* planner.selectIndex.                                                    *)
(***************************************************************************)
\* The scanNode fields selectIndex writes.
Scan(index, isSecondaryIndex, startKey, endKey) ==
    [index |-> index, isSecondaryIndex |-> isSecondaryIndex,
     startKey |-> startKey, endKey |-> endKey]

\* The index descriptor s.index points to.
IndexByID(d, id) == IF id = d.PrimaryIndex.ID THEN d.PrimaryIndex ELSE d.Indexes[id - 1]

\* The candidate list selectIndex builds.
makeCandidates(sc, d) ==
    IF sc.isSecondaryIndex
    THEN <<NewIndexInfo(IndexByID(d, sc.index))>>
    ELSE <<NewIndexInfo(d.PrimaryIndex)>>
         \o [i \in 1..Len(d.Indexes) |-> NewIndexInfo(d.Indexes[i])]

\* The early return taken for a missing table only.
noTableOnly(d, f) == d = NoDesc

\* "No table or where-clause": selectIndex returns the scanNode as it is.
noTableOrFilter(d, f) == d = NoDesc \/ f = NoFilter

\* What one run of selectIndex leaves, given the range map the analysis left
\* (ctx) and the order the range over s.qvals takes (qord).
selectIndexWith(sc, d, ctx, qord, b) ==
    IF ctx.panic
    THEN [scan |-> sc, rangeInfo |-> ctx.m, candidates |-> <<>>, panic |-> TRUE]
    ELSE LET cl == makeCandidates(sc, d)
             analyzed == [i \in 1..Len(cl) |-> analyzeRanges(d, cl[i], qord, ctx.m)]
             sorted == sortByCost(analyzed, b)
             best == sorted[1]
         IN  [scan |-> Scan(best.index.ID, ~isPrimaryIndex(d, best.index),
                            makeStartKey(d, best), makeEndKey(d, best)),
              rangeInfo |-> ctx.m, candidates |-> sorted, panic |-> FALSE]

\* planner.selectIndex: every outcome of a run on scanNode sc (table d, filter
\* f, referenced columns qvals), over the orders its map ranges can take.
selectIndex(sc, d, f, qvals, b) ==
    IF noTableOrFilter(d, f)
    THEN {[scan |-> sc, rangeInfo |-> EmptyMap, candidates |-> <<>>, panic |-> FALSE]}
    ELSE {selectIndexWith(sc, d, ctx, qord, b) :
             ctx \in analyzeExpr(Ctx(EmptyMap), f), qord \in Orders(qvals)}

(***************************************************************************)
(* Tables and filters the model plans.                                     *)
(***************************************************************************)
\* Table 1 (a, b): primary key (a), idx_b on (b).
T1 == Table(1, <<1, 2>>, <<1>>, <<Index(2, <<2>>, FALSE)>>)

\* Table 2 (a, b, c): primary key (a), unique index on (b), index on (b, c),
\* unique index on (a).
T2 == Table(2, <<1, 2, 3>>, <<1>>,
            <<Index(2, <<2>>, TRUE), Index(3, <<2, 3>>, FALSE), Index(4, <<1>>, TRUE)>>)

\* Table 3 (a, b, c): primary key (a, b), two indexes on (c), index on (b, a).
T3 == Table(3, <<1, 2, 3>>, <<1, 2>>,
            <<Index(2, <<3>>, FALSE), Index(3, <<3>>, FALSE), Index(4, <<2, 1>>, FALSE)>>)

\* Table 4 (a, b): primary key (a) and eight indexes on (b).
T4 == Table(4, <<1, 2>>, <<1>>, [i \in 1..8 |-> Index(i + 1, <<2>>, FALSE)])

Layouts == {T1, T2, T3}

WideLayouts == {T4}

\* The columns of a table, as a set.
ColumnSet(d) == {d.Columns[i] : i \in 1..Len(d.Columns)}

\* qvalue <op> constant over the columns cols.
BoundAtoms(cols) == {Cmp(op, QV(c), K(v)) : op \in RangeOps, c \in cols, v \in Datums}

\* constant <op> qvalue.
FlippedAtoms(cols) == {Cmp(op, K(v), QV(c)) : op \in RangeOps, c \in cols, v \in Datums}

\* Comparisons analyzeComparisonExpr gives up on.
SkipAtoms ==
    {Cmp("NE", QV(1), K(1)), Cmp("LIKE", QV(1), K(1)), Cmp("EQ", QV(1), QV(2)),
     Cmp("LT", K(0), K(1)), Cmp("GE", QV(1), NonConst), Cmp("LE", NonConst, QV(1)),
     Cmp("EQ", NonConst, NonConst), Cmp("EQ", QV(1), EvalErr), Cmp("GT", EvalErr, QV(2)),
     Cmp("LE", QV(2), WrongType), Cmp("EQ", WrongType, QV(1))}

\* The columns a filter references (they are part of s.qvals).
RECURSIVE exprColumns(_)
exprColumns(e) ==
    CASE e.kind = "qvalue" -> {e.col}
      [] e.kind = "nonconst" -> {1}
      [] e.kind \in {"and", "or", "cmp"} -> exprColumns(e.left) \cup exprColumns(e.right)
      [] e.kind \in {"not", "paren"} -> exprColumns(e.expr)
      [] e.kind = "range" ->
            exprColumns(e.left) \cup exprColumns(e.from) \cup exprColumns(e.to)
      [] OTHER -> {}

\* The where-clauses of the model.
Filters ==
    BoundAtoms({1, 2, 3}) \cup FlippedAtoms({1}) \cup SkipAtoms \cup {OtherExpr}
    \cup {And(x, y) : x \in BoundAtoms({1}), y \in BoundAtoms({1, 2})}
    \cup {Or(x, y) : x \in BoundAtoms({1}), y \in BoundAtoms({1, 2})}
    \cup {And(x, Cmp("EQ", QV(1), K(v))) : x \in SkipAtoms, v \in Datums}
    \cup {Or(Cmp("EQ", QV(1), K(v)), y) : v \in Datums, y \in SkipAtoms}
    \cup {RangeCond(neg, QV(1), K(x), K(y)) : neg \in BOOLEAN, x \in Datums, y \in Datums}
    \cup {Not(x) : x \in BoundAtoms({1})}
    \cup {Paren(x) : x \in BoundAtoms({2})}
    \cup {And(x, Or(y, z)) : x \in {Cmp(op, QV(1), K(v)) : op \in {"EQ", "GT", "LT"}, v \in Datums},
                             y \in {Cmp(op, QV(1), K(v)) : op \in {"GE", "LT"}, v \in Datums},
                             z \in {Cmp(op, QV(1), K(v)) : op \in {"GT", "LE"}, v \in Datums}}
    \cup {Or(And(Cmp("GE", QV(1), K(x)), Cmp("LE", QV(2), K(y))), Cmp(op, QV(2), K(x))) :
             x \in Datums, y \in Datums, op \in {"GE", "LT"}}

\* The where-clauses planned against the wide table.
WideFilters ==
    BoundAtoms({1, 2}) \cup {OtherExpr}
    \cup {And(x, y) : x \in BoundAtoms({1}), y \in BoundAtoms({2})}

\* The sets of columns the target expressions reference.
TargetSets(d) == IF d = NoDesc THEN {{}} ELSE {{}, {d.Columns[Len(d.Columns)]}}

\* The builds: how sort.Sort orders equal elements beyond insertion sort.
Builds == {0, 1}

(***************************************************************************)
(* The planner: Select sets the scanNode up (initFrom, initWhere,          *)
(* initTargets) and calls selectIndex.                                     *)
(***************************************************************************)
NoScan == Scan(0, FALSE, <<>>, <<>>)

IdleAlg ==
    /\ q = ZeroInfo /\ qstart = TRUE /\ qprev = ZeroInfo /\ qn = ZeroInfo
    /\ qop = "none" /\ q0 = ZeroInfo /\ qseq = "none" /\ qpanic = FALSE
    /\ qfold = {}

IdleAna ==
    /\ m = EmptyMap /\ mprev = EmptyMap /\ mleft = NoFilter /\ mright = NoFilter
    /\ mpanic = FALSE /\ mstage = "empty"

IdleSel ==
    /\ pc = "from" /\ desc = NoDesc /\ reqIndex = 0 /\ filter = NoFilter
    /\ targets = {} /\ scan = NoScan /\ rangeInfo = EmptyMap /\ candidates = <<>>
    /\ panicked = FALSE /\ rescan = NoScan

\* The scanNode initFrom leaves for table d and the index request req
\* (0: none; otherwise the ID of the index the query names). The flag is set
\* for an index other than the primary index, as selectIndex itself sets it.
scanFrom(d, req) ==
    IF d = NoDesc THEN NoScan
    ELSE Scan(IF req = 0 THEN d.PrimaryIndex.ID ELSE req,
              req # 0 /\ req # d.PrimaryIndex.ID, <<>>, <<>>)

\* s.initFrom(p, n.From)
InitFrom(layouts) ==
    /\ pc = "from"
    /\ \E d \in layouts \cup {NoDesc} :
       \E req \in IF d = NoDesc THEN {0}
                  ELSE {0, d.PrimaryIndex.ID} \cup {d.Indexes[i].ID : i \in 1..Len(d.Indexes)} :
          /\ desc' = d
          /\ reqIndex' = req
          /\ scan' = scanFrom(d, req)
    /\ pc' = "where"
    /\ UNCHANGED <<filter, targets, rangeInfo, candidates, panicked, rescan, build>>
    /\ UNCHANGED <<algVars, anaVars>>

\* s.initWhere(n.Where)
InitWhere(filters) ==
    /\ pc = "where"
    /\ filter' \in IF desc = NoDesc THEN {NoFilter, OtherExpr, Cmp("EQ", K(0), K(0))}
                   ELSE {f \in filters : exprColumns(f) \subseteq ColumnSet(desc)} \cup {NoFilter}
    /\ pc' = "targets"
    /\ UNCHANGED <<desc, reqIndex, targets, scan, rangeInfo, candidates, panicked, rescan, build>>
    /\ UNCHANGED <<algVars, anaVars>>

\* s.initTargets(n.Exprs)
InitTargets ==
    /\ pc = "targets"
    /\ targets' \in TargetSets(desc)
    /\ pc' = "select"
    /\ UNCHANGED <<desc, reqIndex, filter, scan, rangeInfo, candidates, panicked, rescan, build>>
    /\ UNCHANGED <<algVars, anaVars>>

\* s.qvals: the columns the target expressions and the where-clause reference.
qvalsOf(f, tg) == tg \cup (IF f = NoFilter THEN {} ELSE exprColumns(f))

\* p.selectIndex(s)
SelectIndex ==
    /\ pc = "select"
    /\ \E out \in selectIndex(scan, desc, filter, qvalsOf(filter, targets), build) :
          /\ scan' = out.scan
          /\ rangeInfo' = out.rangeInfo
          /\ candidates' = out.candidates
          /\ panicked' = out.panic
    /\ pc' = "done"
    /\ UNCHANGED <<desc, reqIndex, filter, targets, rescan, build>>
    /\ UNCHANGED <<algVars, anaVars>>

\* The same statement planned again: a second scanNode set up the same way
\* and handed to selectIndex.
Replan ==
    /\ pc = "done"
    /\ \E out \in selectIndex(scanFrom(desc, reqIndex), desc, filter,
                              qvalsOf(filter, targets), build) :
          rescan' = out.scan
    /\ pc' = "replanned"
    /\ UNCHANGED <<desc, reqIndex, filter, targets, scan, rangeInfo, candidates, panicked, build>>
    /\ UNCHANGED <<algVars, anaVars>>

Init == IdleAlg /\ IdleAna /\ IdleSel /\ build = 0

Next ==
    \/ InitFrom(Layouts)
    \/ InitWhere(Filters)
    \/ InitTargets
    \/ SelectIndex
    \/ Replan

Spec == Init /\ [][Next]_vars

\* Planning against the wide table, under every build.
InitWide == IdleAlg /\ IdleAna /\ IdleSel /\ build \in Builds

NextWide ==
    \/ InitFrom(WideLayouts)
    \/ InitWhere(WideFilters)
    \/ InitTargets
    \/ SelectIndex
    \/ Replan

SpecWide == InitWide /\ [][NextWide]_vars

(***************************************************************************)
(* The range algebra on its own: one end of a range (q), on the start or   *)
(* the end side (qstart), under a sequence of intersect and union calls.   *)
(***************************************************************************)
\* The constraints a caller can hand to intersect or union.
Bounds(ops) == {[datum |-> v, op |-> o] : v \in Datums, o \in ops}

\* The constraints of one side: start ({GE, GT}) or end ({LE, LT}).
SideBounds(start) == Bounds(IF start THEN {"GE", "GT"} ELSE {"LE", "LT"})

\* q.intersect(n, qstart)
Intersect ==
    /\ ~qpanic
    /\ \E n \in Bounds({"GE", "GT", "LE", "LT", "EQ"}) :
          /\ q' = intersect(q, n, qstart).q
          /\ qpanic' = intersect(q, n, qstart).panic
          /\ qn' = n
          /\ qfold' = qfold \cup {n}
    /\ qprev' = q
    /\ qop' = "intersect"
    /\ qseq' = IF qseq \in {"none", "intersect"} THEN "intersect" ELSE "mixed"
    /\ UNCHANGED <<qstart, q0>>
    /\ UNCHANGED <<anaVars, selVars>>

\* q.union(n, qstart)
Union ==
    /\ ~qpanic
    /\ \E n \in Bounds({"GE", "GT", "LE", "LT", "EQ"}) :
          /\ q' = union(q, n, qstart).q
          /\ qpanic' = union(q, n, qstart).panic
          /\ qn' = n
          /\ qfold' = qfold \cup {n}
    /\ qprev' = q
    /\ qop' = "union"
    /\ qseq' = IF qseq \in {"none", "union"} THEN "union" ELSE "mixed"
    /\ UNCHANGED <<qstart, q0>>
    /\ UNCHANGED <<anaVars, selVars>>

InitAlgebra ==
    /\ qstart \in BOOLEAN
    /\ q \in SideBounds(qstart) \cup {ZeroInfo}
    /\ q0 = q
    /\ qfold = IF q = ZeroInfo THEN {} ELSE {q}
    /\ qprev = ZeroInfo /\ qn = ZeroInfo /\ qop = "none" /\ qseq = "none" /\ qpanic = FALSE
    /\ IdleAna /\ IdleSel /\ build = 0

NextAlgebra == Intersect \/ Union

SpecAlgebra == InitAlgebra /\ [][NextAlgebra]_vars

(***************************************************************************)
(* The analysis on its own: a fresh range map (m) filled by the two calls  *)
(* of the AndExpr case, m.analyzeExpr(t.Left) and m.analyzeExpr(t.Right).  *)
(***************************************************************************)
\* The expressions the analysis is run on.
AnalyzedExprs ==
    BoundAtoms({1, 2}) \cup FlippedAtoms({1}) \cup SkipAtoms \cup {OtherExpr}
    \cup {Not(x) : x \in BoundAtoms({1})}
    \cup {Paren(x) : x \in BoundAtoms({2})}
    \cup {Or(x, y) : x \in BoundAtoms({1}), y \in BoundAtoms({1, 2})}
    \cup {Or(x, y) : x \in SkipAtoms, y \in BoundAtoms({1})}
    \cup {RangeCond(neg, QV(1), K(x), K(y)) : neg \in BOOLEAN, x \in Datums, y \in Datums}
    \cup {Or(RangeCond(FALSE, QV(1), K(0), K(x)), RangeCond(FALSE, QV(1), K(y), K(MaxVal))) :
             x \in Datums, y \in Datums}
    \cup {Or(And(Cmp("GE", QV(1), K(x)), Cmp("LE", QV(2), K(y))), Cmp(op, QV(c), K(MaxVal))) :
             x \in Datums, y \in Datums, op \in {"GT", "LT"}, c \in {1, 2}}

\* The left sides: expressions that leave the map empty, bound one column or
\* bound two.
LeftExprs ==
    BoundAtoms({1, 2}) \cup SkipAtoms \cup {OtherExpr, Not(Cmp("EQ", QV(1), K(1)))}
    \cup {RangeCond(FALSE, QV(1), K(x), K(y)) : x \in Datums, y \in Datums}
    \cup {And(Cmp("GE", QV(1), K(x)), Cmp("LE", QV(2), K(y))) : x \in Datums, y \in Datums}

\* m.analyzeExpr(t.Left) on the fresh map.
AnalyzeLeft ==
    /\ mstage = "empty"
    /\ \E e \in LeftExprs :
       \E out \in analyzeExpr(Ctx(m), e) :
          /\ mleft' = e
          /\ m' = out.m
          /\ mpanic' = out.panic
    /\ mprev' = m
    /\ mstage' = "left"
    /\ UNCHANGED mright
    /\ UNCHANGED <<algVars, selVars>>

\* m.analyzeExpr(t.Right) on the map the left side filled.
AnalyzeRight ==
    /\ mstage = "left"
    /\ ~mpanic
    /\ \E e \in AnalyzedExprs :
       \E out \in analyzeExpr(Ctx(m), e) :
          /\ mright' = e
          /\ m' = out.m
          /\ mpanic' = out.panic
    /\ mprev' = m
    /\ mstage' = "right"
    /\ UNCHANGED mleft
    /\ UNCHANGED <<algVars, selVars>>

InitAnalyze == IdleAlg /\ IdleAna /\ IdleSel /\ build = 0

NextAnalyze == AnalyzeLeft \/ AnalyzeRight

SpecAnalyze == InitAnalyze /\ [][NextAnalyze]_vars

(***************************************************************************)
(* Rows and their keys, for the properties of the committed interval.      *)
(***************************************************************************)
\* The rows of table d: a datum for every column.
Rows(d) == [ColumnSet(d) -> Datums]

\* The value of a qvalue or constant operand in a row.
operandValue(row, x) == IF x.kind = "qvalue" THEN row[x.col] ELSE x.val

\* Whether the row-level evaluation of an operand is modelled.
plainOperand(x) == x.kind \in {"qvalue", "const"}

\* The truth of a comparison of two values.
compareValues(op, l, r) ==
    CASE op = "EQ" -> l = r
      [] op = "NE" -> l # r
      [] op = "LT" -> l < r
      [] op = "LE" -> l <= r
      [] op = "GT" -> l > r
      [] op = "GE" -> l >= r

\* Whether row satisfies filter e; opq is the truth of every sub-expression
\* whose evaluation is not modelled (LIKE, function calls, failing constants).
RECURSIVE rowSatisfies(_, _, _)
rowSatisfies(row, e, opq) ==
    CASE e.kind = "and" -> rowSatisfies(row, e.left, opq) /\ rowSatisfies(row, e.right, opq)
      [] e.kind = "or" -> rowSatisfies(row, e.left, opq) \/ rowSatisfies(row, e.right, opq)
      [] e.kind = "not" -> ~rowSatisfies(row, e.expr, opq)
      [] e.kind = "paren" -> rowSatisfies(row, e.expr, opq)
      [] e.kind = "cmp" ->
            IF plainOperand(e.left) /\ plainOperand(e.right) /\ e.op \in RangeOps \cup {"NE"}
            THEN compareValues(e.op, operandValue(row, e.left), operandValue(row, e.right))
            ELSE opq
      [] e.kind = "range" ->
            IF plainOperand(e.left) /\ plainOperand(e.from) /\ plainOperand(e.to)
            THEN (e.not) # (/\ operandValue(row, e.left) >= operandValue(row, e.from)
                            /\ operandValue(row, e.left) <= operandValue(row, e.to))
            ELSE opq
      [] OTHER -> opq

\* The encoded values of the columns cols of a row, appended to key.
RECURSIVE encodeColumns(_, _, _)
encodeColumns(key, cols, row) ==
    IF cols = <<>> THEN key
    ELSE encodeColumns(encodeTableKey(key, row[Head(cols)]), Tail(cols), row)

\* The keys of a row in an index. Primary index: the sentinel key (prefix and
\* primary-key values) and one key per other column, with the column ID as
\* suffix. Secondary index: prefix and index-column values, followed for a
\* non-unique index by the primary-key values the index does not hold.
indexKeys(d, index, row) ==
    LET base == encodeColumns(MakeIndexKeyPrefix(d.ID, index.ID), index.ColumnIDs, row)
    IN  IF isPrimaryIndex(d, index)
        THEN {base} \cup {Append(base, IntZero + c) :
                            c \in {x \in ColumnSet(d) : ~containsColumnID(index, x)}}
        ELSE IF index.Unique THEN {base}
        ELSE {encodeColumns(base,
                            SelectSeq(d.PrimaryIndex.ColumnIDs,
                                      LAMBDA c : ~containsColumnID(index, c)),
                            row)}

\* key lies in the half-open interval [startKey, endKey).
inInterval(key, startKey, endKey) ==
    bytesCompare(startKey, key) <= 0 /\ bytesCompare(key, endKey) < 0

\* selectIndex has run to its end and committed a candidate to the scan.
committed == pc \in {"done", "replanned"} /\ ~noTableOrFilter(desc, filter) /\ ~panicked

(***************************************************************************)
(* Properties.                                                             *)
(***************************************************************************)
\* C1 (soundness): once selectIndex has committed, every key that a row
\* satisfying the filter has in the committed index lies in the committed
\* interval: startKey <= key < endKey.
C1_Soundness ==
    (committed /\ pc = "done") =>
        \A row \in Rows(desc) :
            (\E opq \in BOOLEAN : rowSatisfies(row, filter, opq)) =>
                \A key \in indexKeys(desc, IndexByID(desc, scan.index), row) :
                    inInterval(key, scan.startKey, scan.endKey)

\* C1 witness: a committed interval bounded on both sides by the filter, with
\* a row inside it that satisfies the filter and a row outside it.
C1_Witness ==
    /\ committed
    /\ scan.isSecondaryIndex
    /\ Len(scan.startKey) > 2
    /\ \E row \in Rows(desc) : rowSatisfies(row, filter, TRUE)
    /\ \E row \in Rows(desc) :
          \E key \in indexKeys(desc, IndexByID(desc, scan.index), row) :
              ~inInterval(key, scan.startKey, scan.endKey)

\* What the claim of C2 calls a covering index: the primary index, or a
\* secondary index that holds every referenced column among its key columns
\* or, when it is not unique, among the primary-key columns.
coversQuery(d, index, qvals) ==
    \/ index.ID = d.PrimaryIndex.ID
    \/ \A c \in qvals :
          \/ c \in {index.ColumnIDs[i] : i \in 1..Len(index.ColumnIDs)}
          \/ /\ ~index.Unique
             /\ c \in {d.PrimaryIndex.ColumnIDs[i] : i \in 1..Len(d.PrimaryIndex.ColumnIDs)}

\* C2: a secondary index that does not cover the query is never the index
\* selectIndex commits, also when the scan arrives with it requested.
C2_NonCoveringNeverCommitted ==
    committed => coversQuery(desc, IndexByID(desc, scan.index), qvalsOf(filter, targets))

\* The costs of the sorted candidates are in ascending order.
sortedByCost(cands) ==
    \A i, j \in 1..Len(cands) : i < j => ~CostLess(cands[j].cost, cands[i].cost)

\* No two candidates of equal cost have changed places: enumeration order is
\* the order of the index IDs (primary 1, then the secondary indexes).
tiesInOrder(cands) ==
    \A i, j \in 1..Len(cands) :
        (/\ i < j
         /\ ~CostLess(cands[i].cost, cands[j].cost)
         /\ ~CostLess(cands[j].cost, cands[i].cost)) => cands[i].index.ID < cands[j].index.ID

\* C3 (stable tie-break): the committed index is the candidate of minimal cost
\* that comes first in enumeration order, whatever the number of candidates,
\* and the ranking never reorders two candidates of equal cost.
C3_StableTieBreak ==
    committed =>
        /\ sortedByCost(candidates)
        /\ tiesInOrder(candidates)
        /\ scan.index = candidates[1].index.ID

\* C4 (determinism): a second run of selectIndex on a scan set up the same
\* way commits the same index, flag, startKey and endKey as the first.
C4_Determinism == pc = "replanned" => rescan = scan

\* C4 witness: both runs have committed a bounded interval for a disjunction
\* whose left side bounds two columns.
C4_Witness ==
    /\ pc = "replanned"
    /\ committed
    /\ filter.kind = "or"
    /\ filter.left.kind = "and"
    /\ rescan = scan
    /\ Len(scan.endKey) > 2

\* C5: with no table descriptor or no filter, a step of selectIndex leaves
\* index, isSecondaryIndex, startKey and endKey as they were, builds no range
\* map and evaluates no candidate.
C5_NoTableOrFilterUnchanged ==
    [][(pc = "select" /\ (desc = NoDesc \/ filter = NoFilter))
        => (scan' = scan /\ rangeInfo' = EmptyMap /\ candidates' = <<>>)]_vars

\* C5 witness: selectIndex has returned for a scan that has a table and a
\* requested secondary index but no filter.
C5_Witness ==
    /\ pc = "done"
    /\ desc # NoDesc
    /\ filter = NoFilter
    /\ scan.isSecondaryIndex
    /\ scan.startKey = <<>>

\* The values a constraint admits on its side; no constraint admits them all.
admits(b, start, v) ==
    \/ b.datum = Nil
    \/ IF start
       THEN (IF b.op = "GT" THEN v > b.datum ELSE v >= b.datum)
       ELSE (IF b.op = "LT" THEN v < b.datum ELSE v <= b.datum)

\* new is no wider than old: it admits no value old excluded, its value has
\* not moved outwards and, on an equal value, a strict operator stays strict.
noWider(old, new, start) ==
    /\ \A v \in Datums : admits(new, start, v) => admits(old, start, v)
    /\ old.datum # Nil =>
          /\ new.datum # Nil
          /\ IF start THEN new.datum >= old.datum ELSE new.datum <= old.datum
          /\ (new.datum = old.datum /\ old.op \in {"GT", "LT"}) => new.op = old.op

\* new is no narrower than old: it admits every value old admitted.
noNarrower(old, new, start) ==
    /\ \A v \in Datums : admits(old, start, v) => admits(new, start, v)
    /\ IF start THEN new.datum <= old.datum ELSE new.datum >= old.datum
    /\ (new.datum = old.datum /\ old.op \in {"GE", "LE"}) => new.op = old.op

\* C6 (monotonic tightening): an intersect with a constraint of the matching
\* side leaves a constraint no wider than the existing one, and so does any
\* sequence of intersects; a union of an existing constraint with one of the
\* matching side leaves a constraint no narrower, and so does any sequence of
\* unions.
C6_MonotonicTightening ==
    /\ (qop = "intersect" /\ ~qpanic) => noWider(qprev, q, qstart)
    /\ (qseq = "intersect" /\ ~qpanic) => noWider(q0, q, qstart)
    /\ (qop = "union" /\ ~qpanic /\ qprev.datum # Nil) => noNarrower(qprev, q, qstart)
    /\ (qseq = "union" /\ ~qpanic /\ q0.datum # Nil) => noNarrower(q0, q, qstart)

\* C6 witness: a sequence of unions has moved an existing lower bound down,
\* the last of them from a strict to an inclusive bound on the same value.
C6_Witness ==
    /\ qseq = "union"
    /\ qstart
    /\ ~qpanic
    /\ q0.datum # Nil
    /\ q.datum < q0.datum
    /\ qprev.datum = q.datum
    /\ qprev.op = "GT"
    /\ q.op = "GE"

\* What C7 calls a silent skip: a NOT, or a comparison that has another
\* operator than =, <, <=, >, >=, or that is not a column reference on one
\* side and a column-free expression on the other, or whose constant fails to
\* evaluate or is of another type than the column.
silentSkip(e) ==
    \/ e.kind = "not"
    \/ /\ e.kind = "cmp"
       /\ \/ e.op \notin {"EQ", "LT", "LE", "GT", "GE"}
          \/ ~(\/ (e.left.kind = "qvalue" /\ e.right.kind \in {"const", "evalerr", "wrongtype"})
               \/ (e.right.kind = "qvalue" /\ e.left.kind \in {"const", "evalerr", "wrongtype"}))
          \/ e.left.kind \in {"evalerr", "wrongtype"}
          \/ e.right.kind \in {"evalerr", "wrongtype"}

\* C7 (silent skip): analyzing a skipped comparison or a NOT leaves the range
\* map exactly as it was and raises no error.
C7_SilentSkip ==
    /\ (mstage = "left" /\ silentSkip(mleft)) => (m = EmptyMap /\ ~mpanic)
    /\ (mstage = "right" /\ silentSkip(mright)) => (m = mprev /\ ~mpanic)

\* C7 witness: a comparison with a constant of the wrong type has been
\* analyzed into a map that bounds two columns.
C7_Witness ==
    /\ mstage = "right"
    /\ mright = Cmp("LE", QV(2), WrongType)
    /\ DOMAIN mprev = {1, 2}
    /\ m = mprev

\* C8 (equality on a secondary index column): on table 1 (primary key a,
\* non-unique idx_b on b) the filter b = v commits idx_b, with startKey
\* prefix(idx_b) + encode(v) and endKey the prefix-successor of startKey.
C8_EqualityOnSecondary ==
    \A v \in Datums :
        (committed /\ desc = T1 /\ filter = Cmp("EQ", QV(2), K(v))) =>
            /\ scan.index = 2
            /\ scan.isSecondaryIndex
            /\ scan.startKey = encodeTableKey(MakeIndexKeyPrefix(1, 2), v)
            /\ scan.endKey = PrefixEnd(scan.startKey)

\* C8 witness: b = 1 has been planned on table 1 with no index requested.
C8_Witness ==
    /\ committed
    /\ desc = T1
    /\ reqIndex = 0
    /\ filter = Cmp("EQ", QV(2), K(1))
    /\ scan.index = 2

\* C9 (strict bounds on the leading key column): for the filter
\* a > x AND a < y with a the first column of the committed index, startKey
\* is the immediate successor of prefix + encode(x) and endKey is exactly
\* prefix + encode(y).
C9_StrictLeadingBounds ==
    \A c \in {1, 2, 3}, x \in Datums, y \in Datums :
        (/\ committed
         /\ filter = And(Cmp("GT", QV(c), K(x)), Cmp("LT", QV(c), K(y)))
         /\ IndexByID(desc, scan.index).ColumnIDs[1] = c) =>
            /\ scan.startKey =
                  KeyNext(encodeTableKey(MakeIndexKeyPrefix(desc.ID, scan.index), x))
            /\ scan.endKey = encodeTableKey(MakeIndexKeyPrefix(desc.ID, scan.index), y)

\* The lower or upper bound a comparison "column op constant" or a BETWEEN
\* puts on its column, read off the expression; ZeroInfo when it puts none.
boundOf(e, start) ==
    IF e.kind = "range"
    THEN [datum |-> IF start THEN e.from.val ELSE e.to.val, op |-> IF start THEN "GE" ELSE "LE"]
    ELSE IF start /\ e.op \in {"EQ", "GE", "GT"}
    THEN [datum |-> e.right.val, op |-> IF e.op = "GT" THEN "GT" ELSE "GE"]
    ELSE IF ~start /\ e.op \in {"EQ", "LE", "LT"}
    THEN [datum |-> e.right.val, op |-> IF e.op = "LT" THEN "LT" ELSE "LE"]
    ELSE ZeroInfo

\* The column a comparison "column op constant" or a BETWEEN bounds.
columnOf(e) == e.left.col

\* Expressions whose bounds boundOf reads off.
simpleBound(e) ==
    \/ e.kind = "range" /\ ~e.not
    \/ e.kind = "cmp" /\ e.op \in RangeOps /\ e.left.kind = "qvalue" /\ e.right.kind = "const"

\* The merge of two bounds of one side that C10 describes: present only when
\* both are, then the outer of the two values, inclusive on equal values when
\* either is inclusive.
mergedBound(l, r, start) ==
    IF l.datum = Nil \/ r.datum = Nil THEN ZeroInfo
    ELSE IF l.datum = r.datum
    THEN [datum |-> l.datum,
          op |-> IF l.op \in {"GE", "LE"} \/ r.op \in {"GE", "LE"}
                 THEN (IF start THEN "GE" ELSE "LE")
                 ELSE (IF start THEN "GT" ELSE "LT")]
    ELSE IF (IF start THEN l.datum < r.datum ELSE l.datum > r.datum) THEN l
    ELSE r

\* An OR has been analyzed into the empty map.
orIntoEmpty == mstage = "right" /\ mprev = EmptyMap /\ mright.kind = "or"

\* C10 (OR merge is a sound superset): after OR(L, R) has been analyzed into
\* an empty map, the range of each column it bounds admits every value the
\* range of L and the range of R admit; its lower bound is there only when
\* both sides have one and is the smaller of the two (inclusive on equal
\* values if either is), its upper bound the larger; a = v1 OR a = v2 leaves
\* >= min(v1, v2) and <= max(v1, v2).
C10_OrMergeSuperset ==
    orIntoEmpty =>
        /\ ~mpanic
        /\ \A l \in analyzeExpr(Ctx(EmptyMap), mright.left),
              r \in analyzeExpr(Ctx(EmptyMap), mright.right) :
              \A c \in DOMAIN m :
                 /\ c \in DOMAIN l.m
                 /\ c \in DOMAIN r.m
                 /\ m[c].start = mergedBound(l.m[c].start, r.m[c].start, TRUE)
                 /\ m[c].end = mergedBound(l.m[c].end, r.m[c].end, FALSE)
                 /\ \A v \in Datums, side \in {l.m[c], r.m[c]} :
                       (admits(side.start, TRUE, v) /\ admits(side.end, FALSE, v)) =>
                           (admits(m[c].start, TRUE, v) /\ admits(m[c].end, FALSE, v))
        /\ (simpleBound(mright.left) /\ simpleBound(mright.right)) =>
              \A c \in DOMAIN m :
                 /\ c = columnOf(mright.left)
                 /\ c = columnOf(mright.right)
                 /\ m[c].start = mergedBound(boundOf(mright.left, TRUE),
                                             boundOf(mright.right, TRUE), TRUE)
                 /\ m[c].end = mergedBound(boundOf(mright.left, FALSE),
                                           boundOf(mright.right, FALSE), FALSE)
        /\ \A v1, v2 \in Datums :
              (mright = Or(Cmp("EQ", QV(1), K(v1)), Cmp("EQ", QV(1), K(v2)))) =>
                  /\ DOMAIN m = {1}
                  /\ m[1].start = [datum |-> IF v1 < v2 THEN v1 ELSE v2, op |-> "GE"]
                  /\ m[1].end = [datum |-> IF v1 > v2 THEN v1 ELSE v2, op |-> "LE"]

\* C10 witness: a > v OR a >= v has been merged into the inclusive lower
\* bound a >= v with no upper bound.
C10_Witness ==
    /\ orIntoEmpty
    /\ simpleBound(mright.left)
    /\ simpleBound(mright.right)
    /\ mright.left.op = "GT"
    /\ mright.right.op = "GE"
    /\ 1 \in DOMAIN m
    /\ m[1].start.op = "GE"
    /\ m[1].start.datum = mright.left.right.val
    /\ m[1].end.datum = Nil

\* A comparison "column op constant" of the analyzed operators.
columnBound(e) ==
    e.kind = "cmp" /\ e.op \in RangeOps /\ e.left.kind = "qvalue" /\ e.right.kind = "const"

\* The filter is an OR of two bounds on two different columns.
orOfTwoColumns ==
    /\ filter.kind = "or"
    /\ columnBound(filter.left)
    /\ columnBound(filter.right)
    /\ filter.left.left.col # filter.right.left.col

\* C11 (an OR never bounds a column one disjunct leaves unconstrained): after
\* selectIndex has planned OR(L, R), the range map holds no column that is
\* missing from the map of L or from the map of R; for an OR of bounds on two
\* different columns the range map is empty, every covering candidate has an
\* empty start and end list, and the committed interval is the full range of
\* the committed index: startKey its prefix, endKey the prefix-successor.
C11_OrDropsOneSidedColumns ==
    /\ (committed /\ filter.kind = "or") =>
          \A l \in analyzeExpr(Ctx(EmptyMap), filter.left),
             r \in analyzeExpr(Ctx(EmptyMap), filter.right) :
             DOMAIN rangeInfo \subseteq (DOMAIN l.m) \cap (DOMAIN r.m)
    /\ (committed /\ orOfTwoColumns) =>
          /\ rangeInfo = EmptyMap
          /\ \A i \in 1..Len(candidates) :
                ~candidates[i].cost.inf =>
                    (candidates[i].start = <<>> /\ candidates[i].end = <<>>)
          /\ scan.startKey = MakeIndexKeyPrefix(desc.ID, scan.index)
          /\ scan.endKey = PrefixEnd(MakeIndexKeyPrefix(desc.ID, scan.index))

\* C11 witness: a > 0 OR b > 1 has been planned on table 1 with no index
\* requested, and the full range of idx_b (the candidate with the fewest keys
\* per row) is committed.
C11_Witness ==
    /\ committed
    /\ desc = T1
    /\ reqIndex = 0
    /\ filter = Or(Cmp("GT", QV(1), K(0)), Cmp("GT", QV(2), K(1)))
    /\ Len(candidates) = 2
    /\ scan.index = 2
    /\ scan.startKey = MakeIndexKeyPrefix(1, 2)

\* The candidate list of a query that names no index: the primary index, then
\* every secondary index in declared order.
allIndexes(d) ==
    [i \in 1..(1 + Len(d.Indexes)) |->
        NewIndexInfo(IF i = 1 THEN d.PrimaryIndex ELSE d.Indexes[i - 1])]

\* C12 (explicit index): when the query names an index, the candidate list
\* holds exactly that index and selectIndex commits it, whatever the filter;
\* when it names none, the candidate list is the primary index followed by
\* every secondary index in declared order.
C12_ExplicitIndex ==
    committed =>
        /\ reqIndex # 0 =>
              /\ makeCandidates(scanFrom(desc, reqIndex), desc)
                     = <<NewIndexInfo(IndexByID(desc, reqIndex))>>
              /\ Len(candidates) = 1
              /\ candidates[1].index.ID = reqIndex
              /\ scan.index = reqIndex
        /\ reqIndex = 0 =>
              /\ makeCandidates(scanFrom(desc, reqIndex), desc) = allIndexes(desc)
              /\ Len(candidates) = 1 + Len(desc.Indexes)
              /\ {candidates[i].index.ID : i \in 1..Len(candidates)} = 1..(1 + Len(desc.Indexes))

\* C12 restricted to the requests selectIndex tells apart: a named secondary
\* index, or no index named.
C12_ExplicitSecondaryIndex ==
    (reqIndex = 0 \/ (desc # NoDesc /\ reqIndex # desc.PrimaryIndex.ID)) => C12_ExplicitIndex

\* Every bound of range map mp that has a value has an operator of its side.
ownSideOps(mp) ==
    \A c \in DOMAIN mp :
        /\ mp[c].start.datum # Nil => mp[c].start.op \in {"GE", "GT"}
        /\ mp[c].end.datum # Nil => mp[c].end.op \in {"LE", "LT"}

\* n has an operator of the other side than the one it is passed for.
wrongSide(n, start) == IF start THEN n.op \notin {"GE", "GT"} ELSE n.op \notin {"LE", "LT"}

\* C13 (the fatal abort is never reached from planning): no run of
\* selectIndex ends in the panic of assertStartOp / assertEndOp, so every
\* bound handed to intersect or union had an operator of its side, and every
\* bound with a value in the range map has an operator of its own side;
\* intersect and union panic exactly when handed a wrong-side operator, and
\* then leave the existing bound as it was (this part is about the two
\* operations alone and is evaluated once, before planning starts).
C13_NoAbortFromPlanning ==
    /\ ~panicked
    /\ ownSideOps(rangeInfo)
    /\ pc = "from" =>
          \A start \in BOOLEAN :
          \A old \in SideBounds(start) \cup {ZeroInfo} :
          \A n \in Bounds(RangeOps) :
             /\ intersect(old, n, start).panic <=> wrongSide(n, start)
             /\ union(old, n, start).panic <=> wrongSide(n, start)
             /\ wrongSide(n, start) =>
                   (intersect(old, n, start).q = old /\ union(old, n, start).q = old)

\* C13 witness: selectIndex has planned a conjunction with an equality, which
\* hands intersect a lower and an upper bound, and has left both in the map.
C13_Witness ==
    /\ committed
    /\ filter.kind = "and"
    /\ filter.left.kind = "cmp"
    /\ filter.left.op = "EQ"
    /\ 1 \in DOMAIN rangeInfo
    /\ rangeInfo[1].start.op \in {"GE", "GT"}
    /\ rangeInfo[1].end.op \in {"LE", "LT"}
    /\ rangeInfo[1].start.datum # Nil
    /\ rangeInfo[1].end.datum # Nil

\* Range new is contained in range old: neither of its bounds is wider.
rangeWithin(old, new) ==
    noWider(old.start, new.start, TRUE) /\ noWider(old.end, new.end, FALSE)

\* The expression holds a disjunction (an OR, or the OR a NOT BETWEEN is
\* rewritten to).
RECURSIVE hasOr(_)
hasOr(e) ==
    CASE e.kind = "or" -> TRUE
      [] e.kind = "range" -> e.not
      [] e.kind = "and" -> hasOr(e.left) \/ hasOr(e.right)
      [] e.kind \in {"not", "paren"} -> hasOr(e.expr)
      [] OTHER -> FALSE

\* C14 (AND only tightens): after AND(L, R) has been analyzed, every bound the
\* map held before R was analyzed is still in force or replaced by a tighter
\* one, and the range of each column is contained in the range L alone
\* yields and in the range R alone yields, for every R.
C14_AndOnlyTightens ==
    (mstage = "right" /\ ~mpanic) =>
        /\ \A c \in DOMAIN mprev : c \in DOMAIN m /\ rangeWithin(mprev[c], m[c])
        /\ \A r \in analyzeExpr(Ctx(EmptyMap), mright) :
              \A c \in DOMAIN r.m : c \in DOMAIN m /\ rangeWithin(r.m[c], m[c])

\* C14 for a right side that holds no disjunction.
C14_AndOnlyTightensWithoutOr == hasOr(mright) \/ C14_AndOnlyTightens

\* The mirrored operator: < and >, <= and >= change places, = stays.
mirrored(op) ==
    CASE op = "LT" -> "GT"
      [] op = "GT" -> "LT"
      [] op = "LE" -> "GE"
      [] op = "GE" -> "LE"
      [] op = "EQ" -> "EQ"

\* The expression just analyzed is "constant op column".
constantOnLeft ==
    /\ mstage = "right"
    /\ mright.kind = "cmp"
    /\ mright.op \in {"EQ", "LT", "LE", "GT", "GE"}
    /\ mright.left.kind = "const"
    /\ mright.right.kind = "qvalue"

\* C15 (operator inversion): analyzing "k op c" leaves the same range map as
\* analyzing "c op' k" with op' the mirrored operator leaves from the same
\* starting map.
C15_OperatorInversion ==
    constantOnLeft =>
        /\ ~mpanic
        /\ analyzeExpr(Ctx(mprev), Cmp(mirrored(mright.op), mright.right, mright.left))
              = {Ctx(m)}

\* C15 witness: 1 < a has been analyzed into a map that already bounded a,
\* and has left the lower bound a > 1.
C15_Witness ==
    /\ constantOnLeft
    /\ mright = Cmp("LT", K(1), QV(1))
    /\ 1 \in DOMAIN mprev
    /\ m # mprev
    /\ m[1].start = [datum |-> 1, op |-> "GT"]

\* The tighter of an existing bound and a new inclusive bound on value v: the
\* new one when there is no existing bound or v lies strictly inside it.
tightened(old, v, start) ==
    IF old.datum = Nil \/ (IF start THEN v > old.datum ELSE v < old.datum)
    THEN [datum |-> v, op |-> IF start THEN "GE" ELSE "LE"]
    ELSE old

\* The range of column c in map mp; the zero range when mp has no entry.
rangeOf(mp, c) == IF c \in DOMAIN mp THEN mp[c] ELSE ZeroRange

\* A BETWEEN over a column and two constants has just been analyzed.
betweenAnalyzed ==
    /\ mstage = "right"
    /\ mright.kind = "range"
    /\ mright.left.kind = "qvalue"
    /\ mright.from.kind = "const"
    /\ mright.to.kind = "const"

\* C16 (BETWEEN rewrite): analyzing "c BETWEEN x AND y" leaves the map that
\* "c >= x AND c <= y" leaves (lower bound >= x and upper bound <= y, each
\* intersected with the bound the map held); analyzing "c NOT BETWEEN x AND
\* y" leaves the map that "c < x OR c > y" leaves, which is the map as it was.
C16_BetweenRewrite ==
    betweenAnalyzed =>
        LET c == mright.left.col
            x == mright.from
            y == mright.to
        IN  /\ ~mpanic
            /\ ~mright.not =>
                  /\ analyzeExpr(Ctx(mprev), And(Cmp("GE", QV(c), x), Cmp("LE", QV(c), y)))
                        = {Ctx(m)}
                  /\ DOMAIN m = DOMAIN mprev \cup {c}
                  /\ m[c].start = tightened(rangeOf(mprev, c).start, x.val, TRUE)
                  /\ m[c].end = tightened(rangeOf(mprev, c).end, y.val, FALSE)
                  /\ \A d \in DOMAIN mprev : d # c => m[d] = mprev[d]
            /\ mright.not =>
                  /\ analyzeExpr(Ctx(mprev), Or(Cmp("LT", QV(c), x), Cmp("GT", QV(c), y)))
                        = {Ctx(m)}
                  /\ m = mprev

\* C16 witness: a BETWEEN 1 AND 1 has been analyzed into a map that bounded
\* a from below by a smaller value, and has tightened both ends.
C16_Witness ==
    /\ betweenAnalyzed
    /\ mright = RangeCond(FALSE, QV(1), K(1), K(1))
    /\ 1 \in DOMAIN mprev
    /\ mprev[1].start.datum = 0
    /\ m[1].start = [datum |-> 1, op |-> "GE"]
    /\ m[1].end = [datum |-> 1, op |-> "LE"]

\* The bounds C17 describes for one side: the bounds of that side that exist
\* on the leading columns, in declared order, up to and including the first
\* strict one, stopping before the first column that has no bound of the side.
RECURSIVE existingBounds(_, _, _)
existingBounds(cols, mp, start) ==
    IF cols = <<>> THEN <<>>
    ELSE LET b == IF start THEN rangeOf(mp, Head(cols)).start ELSE rangeOf(mp, Head(cols)).end
         IN  IF b.datum = Nil THEN <<>>
             ELSE IF b.op \in {"GT", "LT"} THEN <<b>>
             ELSE <<b>> \o existingBounds(Tail(cols), mp, start)

\* C17 (bound extraction): the start list of every covering candidate holds
\* only lower bounds that exist (a value, and operator >= or >), taken from
\* the leading index columns in declared order, and nothing for the first
\* column without a lower bound; the end list symmetrically holds only
\* existing upper bounds. A column with only an upper bound adds nothing to
\* the start list, one with only a lower bound nothing to the end list.
C17_BoundExtraction ==
    committed =>
        \A i \in 1..Len(candidates) :
            ~candidates[i].cost.inf =>
                LET v == candidates[i] IN
                /\ \A j \in 1..Len(v.start) :
                      v.start[j].datum # Nil /\ v.start[j].op \in {"GE", "GT"}
                /\ \A j \in 1..Len(v.end) :
                      v.end[j].datum # Nil /\ v.end[j].op \in {"LE", "LT"}
                /\ v.start = existingBounds(v.index.ColumnIDs, rangeInfo, TRUE)
                /\ v.end = existingBounds(v.index.ColumnIDs, rangeInfo, FALSE)

\* C17 for range maps in which every column has both of its bounds.
C17_BoundExtractionTwoSided ==
    (\A c \in DOMAIN rangeInfo :
        rangeInfo[c].start.datum # Nil /\ rangeInfo[c].end.datum # Nil) => C17_BoundExtraction

\* The base of C18: 1 + table columns - primary-key columns for the primary
\* index, the number of key columns for a secondary index.
keysPerRow(d, index) ==
    IF index.ID = d.PrimaryIndex.ID
    THEN 1 + Len(d.Columns) - Len(d.PrimaryIndex.ColumnIDs)
    ELSE Len(index.ColumnIDs)

\* Cost c is the fraction num / den.
costIs(c, num, den) == ~c.inf /\ c.num * den = num * c.den

\* C18 (cost of a candidate): a covering candidate costs base * 1000 when its
\* start and end lists are both empty, and otherwise
\* base * (2 * key columns) / (start list length + end list length); a
\* candidate that does not cover costs the maximal cost, strictly more than
\* every covering candidate.
C18_CandidateCost ==
    committed =>
        \A i \in 1..Len(candidates) :
            LET v == candidates[i]
                base == keysPerRow(desc, v.index)
                used == Len(v.start) + Len(v.end)
            IN  IF coversQuery(desc, v.index, qvalsOf(filter, targets))
                THEN IF used = 0
                     THEN costIs(v.cost, base * 1000, 1)
                     ELSE costIs(v.cost, base * (2 * Len(v.index.ColumnIDs)), used)
                ELSE /\ v.cost = MaxFloat64
                     /\ \A j \in 1..Len(candidates) :
                           coversQuery(desc, candidates[j].index, qvalsOf(filter, targets)) =>
                               CostLess(candidates[j].cost, v.cost)

\* C18 witness: the candidates of one run include one that does not cover,
\* one with empty lists and one whose lists hold bounds.
C18_Witness ==
    /\ committed
    /\ \E i \in 1..Len(candidates) : candidates[i].cost = MaxFloat64
    /\ \E i \in 1..Len(candidates) :
          /\ candidates[i].start = <<>> /\ candidates[i].end = <<>>
          /\ candidates[i].cost = Cost(3000, 1)
    /\ \E i \in 1..Len(candidates) :
          /\ Len(candidates[i].start) + Len(candidates[i].end) = 2
          /\ Len(candidates[i].index.ColumnIDs) = 2
          /\ costIs(candidates[i].cost, 4, 1)

\* The columns of a column list, as a set.
columnsOf(cols) == {cols[i] : i \in 1..Len(cols)}

\* Coverage as C19 states it, case by case.
coverage(d, index, qvals) ==
    IF index.ID = d.PrimaryIndex.ID THEN TRUE
    ELSE IF index.Unique THEN qvals \subseteq columnsOf(index.ColumnIDs)
    ELSE qvals \subseteq columnsOf(index.ColumnIDs) \cup columnsOf(d.PrimaryIndex.ColumnIDs)

\* The indexes of table d.
indexesOf(d) == {d.PrimaryIndex} \cup {d.Indexes[i] : i \in 1..Len(d.Indexes)}

\* C19 (coverage check): the primary index covers every query; a non-unique
\* secondary index covers exactly when every referenced column is among its
\* key columns or the primary-key columns; a unique secondary index covers
\* exactly when every referenced column is among its key columns. This is
\* what isCoveringIndex answers for every index of the table, in whatever
\* order it visits the referenced columns, and what every evaluated
\* candidate's cost reflects.
C19_CoverageCheck ==
    (pc \in {"select", "done"} /\ desc # NoDesc) =>
        LET qvals == qvalsOf(filter, targets) IN
        /\ \A index \in indexesOf(desc), qord \in Orders(qvals) :
              isCoveringIndex(desc, index, qord) <=> coverage(desc, index, qvals)
        /\ \A i \in 1..Len(candidates) :
              (candidates[i].cost # MaxFloat64) <=> coverage(desc, candidates[i].index, qvals)

\* C19 witness: on table 2 a query referencing a and b has been planned; the
\* unique index on (b) does not cover it, the non-unique index on (b, c) does.
C19_Witness ==
    /\ committed
    /\ desc = T2
    /\ qvalsOf(filter, targets) = {1, 2}
    /\ Len(candidates) = 4
    /\ \E i \in 1..4 : candidates[i].index.ID = 2 /\ candidates[i].cost = MaxFloat64
    /\ \E i \in 1..4 : candidates[i].index.ID = 3 /\ candidates[i].cost # MaxFloat64

\* Datum lo orders at or before datum hi under the encoding comparator.
ordersBefore(lo, hi) ==
    bytesCompare(encodeTableKey(<<>>, lo), encodeTableKey(<<>>, hi)) <= 0

\* Every column of range map mp that has both bounds has its lower value
\* ordered at or before its upper value.
rangesOrdered(mp) ==
    \A c \in DOMAIN mp :
        (mp[c].start.datum # Nil /\ mp[c].end.datum # Nil) =>
            ordersBefore(mp[c].start.datum, mp[c].end.datum)

\* C20 (range ordering invariant): in the range map the analysis leaves, a
\* column that has a lower and an upper bound has its lower value ordered at
\* or before its upper value, and the committed interval has
\* startKey <= endKey, also for contradictory filters.
C20_RangeOrdering ==
    committed =>
        /\ rangesOrdered(rangeInfo)
        /\ bytesCompare(scan.startKey, scan.endKey) <= 0

\* The filter is satisfied by some row (whatever the sub-expressions the
\* analysis ignores evaluate to).
satisfiable ==
    \E row \in Rows(desc), opq \in BOOLEAN : rowSatisfies(row, filter, opq)

\* C20 for filters some row satisfies.
C20_RangeOrderingSatisfiable == (committed /\ satisfiable) => C20_RangeOrdering

\* The start list of the committed candidate ends in a strict bound.
strictStart ==
    /\ committed
    /\ candidates[1].start # <<>>
    /\ candidates[1].start[Len(candidates[1].start)].op = "GT"

\* The rows whose values for the leading columns of the committed index
\* equal the values of its start list.
rowsOnStart ==
    LET v == candidates[1] IN
    {row \in Rows(desc) :
        \A j \in 1..Len(v.start) : row[v.index.ColumnIDs[j]] = v.start[j].datum}

\* C21 (tightness of a strict lower bound): when the start list ends in a
\* strict bound c > v, the committed interval holds no key of the committed
\* index whose value for c is v and whose preceding columns equal their bound
\* values, whatever components follow the encoded v in the key.
C21_StrictLowerBoundTight ==
    strictStart =>
        \A row \in rowsOnStart :
            \A key \in indexKeys(desc, candidates[1].index, row) :
                ~inInterval(key, scan.startKey, scan.endKey)

\* C21 for the key that is exactly the prefix and the encoded values.
C21_ExactKeyExcluded ==
    strictStart =>
        \A row \in rowsOnStart :
            LET v == candidates[1]
                exact == encodeColumns(MakeIndexKeyPrefix(desc.ID, v.index.ID),
                                       SubSeq(v.index.ColumnIDs, 1, Len(v.start)), row)
            IN  ~inInterval(exact, scan.startKey, scan.endKey)

\* C22: for every covering candidate, the start list is empty exactly when
\* the end list is, and both are empty exactly when the first key column of
\* the index has no entry in the range map (every entry holding at least one
\* bound); the cost is base * 1000 exactly in that case, and otherwise the
\* divisor, start list length + end list length, is not zero.
C22_ListsEmptyTogether ==
    committed =>
        /\ \A c \in DOMAIN rangeInfo :
              rangeInfo[c].start.datum # Nil \/ rangeInfo[c].end.datum # Nil
        /\ \A i \in 1..Len(candidates) :
              ~candidates[i].cost.inf =>
                  LET v == candidates[i]
                      unbounded == v.index.ColumnIDs[1] \notin DOMAIN rangeInfo
                  IN  /\ (v.start = <<>>) <=> (v.end = <<>>)
                      /\ (v.start = <<>>) <=> unbounded
                      /\ costIs(v.cost, keysPerRow(desc, v.index) * 1000, 1) <=> unbounded
                      /\ ~unbounded => Len(v.start) + Len(v.end) > 0

\* C22 witness: one run has a candidate whose first column has only an upper
\* bound, with neither list empty, and a candidate whose first column has no
\* entry, with both lists empty.
C22_Witness ==
    /\ committed
    /\ \E i \in 1..Len(candidates) :
          LET v == candidates[i] IN
          /\ ~v.cost.inf
          /\ v.index.ColumnIDs[1] \in DOMAIN rangeInfo
          /\ rangeInfo[v.index.ColumnIDs[1]].start.datum = Nil
          /\ Len(v.start) = 1
          /\ Len(v.end) = 1
    /\ \E i \in 1..Len(candidates) :
          /\ ~candidates[i].cost.inf
          /\ candidates[i].start = <<>>
          /\ candidates[i].end = <<>>

\* The largest (most == TRUE) or smallest value among the constraints S.
outerValue(S, most) ==
    CHOOSE v \in {b.datum : b \in S} :
        \A b \in S : IF most THEN b.datum <= v ELSE b.datum >= v

\* The intersection of the same-side constraints S as C23 states it: the
\* largest lower (smallest upper) value, strict if any constraint at that
\* value is strict; no constraint for the empty set.
intersectionOf(S, start) ==
    IF S = {} THEN ZeroInfo
    ELSE LET v == outerValue(S, start)
         IN  [datum |-> v,
              op |-> IF \E b \in S : b.datum = v /\ b.op \in {"GT", "LT"}
                     THEN (IF start THEN "GT" ELSE "LT")
                     ELSE (IF start THEN "GE" ELSE "LE")]

\* The union of the same-side constraints S as C23 states it: the smallest
\* lower (largest upper) value, inclusive if any constraint at that value is
\* inclusive.
unionOf(S, start) ==
    IF S = {} THEN ZeroInfo
    ELSE LET v == outerValue(S, ~start)
         IN  [datum |-> v,
              op |-> IF \E b \in S : b.datum = v /\ b.op \in {"GE", "LE"}
                     THEN (IF start THEN "GE" ELSE "LE")
                     ELSE (IF start THEN "GT" ELSE "LT")]

\* C23 (order independence of the range algebra): whatever the order in
\* which same-side constraints have been folded into an absent constraint
\* with intersect, and however often one was repeated, the result is a
\* function of the set folded: the largest lower (smallest upper) value,
\* strict if any constraint at that value is strict; with union, the
\* smallest lower (largest upper) value, inclusive if any constraint at that
\* value is inclusive.
C23_OrderIndependence ==
    /\ (qseq = "intersect" /\ ~qpanic) => q = intersectionOf(qfold, qstart)
    /\ (qseq = "union" /\ ~qpanic) => q = unionOf(qfold, qstart)

\* C23 witness: three or more lower bounds have been intersected, the last
\* of them an inclusive bound on the value of the strict result.
C23_Witness ==
    /\ qseq = "intersect"
    /\ ~qpanic
    /\ qstart
    /\ Cardinality(qfold) >= 3
    /\ q.op = "GT"
    /\ qn = [datum |-> q.datum, op |-> "GE"]
    /\ qprev = q

====
